---------------------------- MODULE Spec2Model ----------------------------
(***************************************************************************)
(* Credit Spread Permission System (src/app.py).                           *)
(*                                                                         *)
(* The script is one straight-line evaluation: it loads three daily bar    *)
(* frames (SPY, the chosen stock, ^VIX), derives the SPY market            *)
(* permission (regime, chop, VIX gate), the stock's range location and     *)
(* bias, and combines them into trade_action, which it then renders.       *)
(*                                                                         *)
(* Numbers.  Prices are integers; every derived value (rolling mean,       *)
(* ATR, buffer, distance) is an exact fraction [def, num, den].  def =     *)
(* FALSE is pandas' NaN: a rolling window that is not full.  Comparisons   *)
(* with a NaN operand are FALSE, as in IEEE-754 / numpy.  Floating-point   *)
(* rounding of the fractions is not modelled.                              *)
(*                                                                         *)
(* Lines 173-176 of src/app.py (a dangling else that reads the undefined   *)
(* name direction) are left over from another variant of the script and    *)
(* are not part of the evaluation modelled here.                           *)
(***************************************************************************)
EXTENDS Integers, Sequences, FiniteSets, TLC

VARIABLES
    cfg,              \* sidebar sliders (lines 17-25)
    spy_df,           \* SPY frame: sequence of Close
    stock_df,         \* stock frame: sequence of [High, Low, Close]
    vix_df,           \* ^VIX frame: sequence of Close
    pc,               \* position of the script
    spy_close, spy_sma20, spy_sma50, market_regime,
    dist_pct, chop_dist, crosses, chop_cross, spy_chop,
    vix_value, vol_ok, market_permission,
    support, resistance, atr, close,
    near_support, near_resistance, mid_range,
    stock_sma20, stock_sma50, stock_bias,
    trade_action, location,
    ui                \* what streamlit was asked to show, in order

inputs == <<cfg, spy_df, stock_df, vix_df>>
spyLocals == <<spy_close, spy_sma20, spy_sma50, market_regime>>
chopLocals == <<dist_pct, chop_dist, crosses, chop_cross, spy_chop>>
vixLocals == <<vix_value, vol_ok, market_permission>>
stockLocals == <<support, resistance, atr, close, near_support, near_resistance, mid_range>>
biasLocals == <<stock_sma20, stock_sma50, stock_bias>>
vars == <<inputs, pc, spyLocals, chopLocals, vixLocals, stockLocals, biasLocals,
          trade_action, location, ui>>

\* A name the script has not bound yet.
Unset == "unset"

----------------------------------------------------------------------------
(* Program constants *)

\* rolling(20) / rolling(50) windows of the moving averages
SMA_SHORT == 20
SMA_LONG == 50

----------------------------------------------------------------------------
(* Exact arithmetic with NaN *)

NaN == [def |-> FALSE, num |-> 0, den |-> 1]
Num(n) == [def |-> TRUE, num |-> n, den |-> 1]
Frac(n, d) == [def |-> TRUE, num |-> n, den |-> d]

Add(a, b) ==
    IF a.def /\ b.def THEN Frac(a.num * b.den + b.num * a.den, a.den * b.den) ELSE NaN
Sub(a, b) ==
    IF a.def /\ b.def THEN Frac(a.num * b.den - b.num * a.den, a.den * b.den) ELSE NaN
Mul(a, b) ==
    IF a.def /\ b.def THEN Frac(a.num * b.num, a.den * b.den) ELSE NaN
AbsF(a) ==
    IF a.def THEN Frac(IF a.num < 0 THEN -a.num ELSE a.num, a.den) ELSE NaN
\* Division of a non-negative value by a positive one (prices are positive).
DivF(a, b) ==
    IF a.def /\ b.def /\ b.num > 0 THEN Frac(a.num * b.den, a.den * b.num) ELSE NaN

Lt(a, b) == a.def /\ b.def /\ a.num * b.den < b.num * a.den
Gt(a, b) == a.def /\ b.def /\ a.num * b.den > b.num * a.den
Le(a, b) == a.def /\ b.def /\ a.num * b.den <= b.num * a.den
Ge(a, b) == a.def /\ b.def /\ a.num * b.den >= b.num * a.den

Max2(x, y) == IF x >= y THEN x ELSE y
Min2(x, y) == IF x <= y THEN x ELSE y
AbsI(x) == IF x < 0 THEN -x ELSE x

----------------------------------------------------------------------------
(* pandas operations on a frame *)

Last(s) == s[Len(s)]

RECURSIVE SumRange(_, _, _)
\* f[lo] + ... + f[hi]
SumRange(f, lo, hi) == IF lo > hi THEN 0 ELSE f[hi] + SumRange(f, lo, hi - 1)

RECURSIVE MinRange(_, _, _)
MinRange(f, lo, hi) == IF lo = hi THEN f[lo] ELSE Min2(f[hi], MinRange(f, lo, hi - 1))

RECURSIVE MaxRange(_, _, _)
MaxRange(f, lo, hi) == IF lo = hi THEN f[lo] ELSE Max2(f[hi], MaxRange(f, lo, hi - 1))

\* series.rolling(w).mean() at row i: NaN until the window is full
RollingMean(s, w, i) ==
    IF i < w THEN NaN ELSE Frac(SumRange(s, i - w + 1, i), w)
RollingMin(s, w, i) ==
    IF i < w THEN NaN ELSE Num(MinRange(s, i - w + 1, i))
RollingMax(s, w, i) ==
    IF i < w THEN NaN ELSE Num(MaxRange(s, i - w + 1, i))

Column(df, col) == [i \in 1..Len(df) |-> df[i][col]]

\* Variant of TrueRange: NaN on the first row (max without skipping NaN).
TrueRangeStrict(df, t) ==
    IF t = 1 THEN NaN
    ELSE Num(Max2(df[t].High - df[t].Low,
                  Max2(AbsI(df[t].High - df[t - 1].Close),
                       AbsI(df[t].Low - df[t - 1].Close))))

\* tr (lines 86-94): row-wise max of the three columns.  prev_close is NaN on
\* the first row, and DataFrame.max(axis=1) skips NaN, so row 1 is high - low.
TrueRange(df, t) ==
    IF t = 1 THEN Num(df[t].High - df[t].Low)
    ELSE Num(Max2(df[t].High - df[t].Low,
                  Max2(AbsI(df[t].High - df[t - 1].Close),
                       AbsI(df[t].Low - df[t - 1].Close))))

\* tr.rolling(w).mean() at the last row (line 96): NaN unless the trailing w
\* rows of tr exist and are all non-NaN.
ATR(df, w) ==
    LET n == Len(df) IN
    IF n < w \/ \E t \in (n - w + 1)..n : ~TrueRange(df, t).def THEN NaN
    ELSE Frac(SumRange([t \in 1..n |-> TrueRange(df, t).num], n - w + 1, n), w)

----------------------------------------------------------------------------
(* The script's expressions *)

\* lines 56-61 and 111-116
Regime(short, long) ==
    IF Gt(short, long) THEN "Bullish"
    ELSE IF Lt(short, long) THEN "Bearish"
    ELSE "Neutral"

\* line 64
DistPct(c, sma50) == DivF(AbsF(Sub(c, sma50)), sma50)

\* CHOP_DIST: the slider counts tenths of a percent, then / 100
ChopDistBand(c) == Frac(c.CHOP_DIST, 1000)

\* ATR_BUFFER: the slider counts percent, then / 100
AtrBuffer(c) == Frac(c.ATR_BUFFER, 100)

\* Variant of Recent: the tail without dropna.
RecentNoDropna(df, c) ==
    LET n == Len(df)
        first == Max2(1, n - c.CHOP_LOOKBACK)
    IN first..n

\* line 67: tail(CHOP_LOOKBACK + 1).dropna(subset=["Close", "SMA50"]) as the
\* row numbers that remain
Recent(df, c) ==
    LET n == Len(df)
        first == Max2(1, n - c.CHOP_LOOKBACK)
    IN { i \in first..n : RollingMean(df, SMA_LONG, i).def }

\* line 68
Above(df, i) == Gt(Num(df[i]), RollingMean(df, SMA_LONG, i))

\* Variant of Crosses: the first row's comparison is not subtracted.
CrossesNoOffset(df, c) ==
    LET rows == Recent(df, c) IN
    Cardinality({ i \in rows : i - 1 \notin rows \/ Above(df, i) # Above(df, i - 1) })

\* line 69: above != above.shift() is True on the first remaining row (the
\* shifted value is NaN) and on every row that differs from its predecessor
Crosses(df, c) ==
    LET rows == Recent(df, c) IN
    Cardinality({ i \in rows : i - 1 \notin rows \/ Above(df, i) # Above(df, i - 1) }) - 1

\* line 70
ChopCross(n, c) == n >= c.CHOP_CROSSES

\* Variant of SpyChop: both signals required.
SpyChopBoth(cd, cc) == cd /\ cc

\* line 72
SpyChop(cd, cc) == cd \/ cc

\* Variant of VolOk: a reading at the threshold passes.
VolOkInclusive(v, c) == v <= c.VIX_THRESHOLD

\* line 76
VolOk(v, c) == v < c.VIX_THRESHOLD

\* line 78
MarketPermission(vok, chop) == vok /\ ~chop

\* line 103
NearSupport(c, s, a, k) == Le(c, Add(s, Mul(AtrBuffer(k), a)))

\* line 104
NearResistance(c, r, a, k) == Ge(c, Sub(r, Mul(AtrBuffer(k), a)))

\* What the decision can read: every name bound before line 121.
Env ==
    [market_regime |-> market_regime, market_permission |-> market_permission,
     spy_chop |-> spy_chop, vol_ok |-> vol_ok,
     near_support |-> near_support, near_resistance |-> near_resistance,
     mid_range |-> mid_range, stock_bias |-> stock_bias]

\* Variant of TradeAction: the spread must also agree with the SPY regime.
TradeActionWithRegime(e) ==
    IF ~e.market_permission THEN "NO TRADE (Market Risk OFF)"
    ELSE IF e.near_support /\ e.stock_bias = "Bullish" /\ e.market_regime = "Bullish"
        THEN "PUT CREDIT SPREAD"
    ELSE IF e.near_resistance /\ e.stock_bias = "Bearish" /\ e.market_regime = "Bearish"
        THEN "CALL CREDIT SPREAD"
    ELSE "SKIP THIS STOCK (Mid-range or bias mismatch)"

\* lines 121-130
TradeAction(e) ==
    IF ~e.market_permission THEN "NO TRADE (Market Risk OFF)"
    ELSE IF e.near_support /\ e.stock_bias = "Bullish" THEN "PUT CREDIT SPREAD"
    ELSE IF e.near_resistance /\ e.stock_bias = "Bearish" THEN "CALL CREDIT SPREAD"
    ELSE "SKIP THIS STOCK (Mid-range or bias mismatch)"

\* Variant of Location: the resistance flag is tested first.
LocationResistanceFirst(ns, nr) ==
    IF nr THEN "Near Resistance" ELSE IF ns THEN "Near Support" ELSE "Mid-Range"

\* lines 156-160
Location(ns, nr) ==
    IF ns THEN "Near Support" ELSE IF nr THEN "Near Resistance" ELSE "Mid-Range"

\* f"{x:,.2f}" / f"{x:.2f}": the value in hundredths, rounded half to even;
\* "nan" for NaN.  All values shown are non-negative.
Fmt2(x) ==
    IF ~x.def THEN "nan"
    ELSE LET q == (x.num * 100) \div x.den
             r == (x.num * 100) % x.den
         IN IF 2 * r > x.den \/ (2 * r = x.den /\ q % 2 = 1) THEN q + 1 ELSE q

Msg(fn, label, value) == [fn |-> fn, label |-> label, value |-> value]

\* lines 136-169
Rendered(loc) ==
    << Msg("metric", "SPY Close", Fmt2(spy_close)),
       Msg("metric", "SPY SMA 20 / 50", <<Fmt2(spy_sma20), Fmt2(spy_sma50)>>),
       Msg("metric", "VIX", Fmt2(vix_value)),
       Msg("write", "Regime", market_regime),
       Msg("write", "Chop Detected", IF spy_chop THEN "YES" ELSE "NO"),
       Msg("write", "Market Permission", IF market_permission THEN "ON" ELSE "OFF"),
       Msg("write", "Bias", stock_bias),
       Msg("write", "Support", Fmt2(support)),
       Msg("write", "Resistance", Fmt2(resistance)),
       Msg("write", "ATR", Fmt2(atr)),
       Msg("write", "Location", loc),
       IF trade_action \in {"PUT CREDIT SPREAD", "CALL CREDIT SPREAD"}
           THEN Msg("success", "ACTION", trade_action)
           ELSE Msg("warning", "", trade_action) >>

----------------------------------------------------------------------------
(* Bounds and input sets *)

\* free trailing bars of an enumerated SPY frame
SpyTail == 6
\* free trailing bars of an enumerated stock frame
StockTail == 2

\* A frame of n rows: base repeated, then the tail.
Frame(n, base, tail) ==
    [i \in 1..n |-> IF i > n - Len(tail) THEN tail[i - (n - Len(tail))] ELSE base]

RECURSIVE Tuples(_, _)
Tuples(S, k) ==
    IF k = 0 THEN {<<>>}
    ELSE { Append(t, x) : t \in Tuples(S, k - 1), x \in S }

SpyLens == {0, 49, 50, 51, 56, 57}
SpyFrames ==
    { Frame(n, b, t) : n \in SpyLens \ {0}, b \in {995, 1000},
                       t \in Tuples({995, 1005}, SpyTail) } \cup {<<>>}

Bar(h, l, c) == [High |-> h, Low |-> l, Close |-> c]
BarShapes ==
    { Bar(1000, 1000, 1000), Bar(1010, 1000, 1010), Bar(1000, 990, 990),
      Bar(1010, 990, 1000), Bar(1010, 990, 995) }
StockLens == {0, 7, 8, 49, 50, 56}
StockFrames ==
    { Frame(n, b, t) : n \in StockLens \ {0},
                       b \in {Bar(1000, 1000, 1000), Bar(1010, 990, 1000)},
                       t \in Tuples(BarShapes, StockTail) } \cup {<<>>}

\* Slider positions (each inside its slider's range and on its step).
Config(vix, rl, al, ab, cd, cl, cc) ==
    [VIX_THRESHOLD |-> vix, RANGE_LOOKBACK |-> rl, ATR_LOOKBACK |-> al,
     ATR_BUFFER |-> ab, CHOP_DIST |-> cd, CHOP_LOOKBACK |-> cl, CHOP_CROSSES |-> cc]

MarketConfigs ==
    { Config(20, 20, 14, 30, cd, cl, cc) : cd \in {1, 6}, cl \in {5, 6}, cc \in {3, 5, 6} }
StockConfigs ==
    { Config(20, 10, 7, ab, 1, 5, 3) : ab \in {15, 50} }

CalmBull == Frame(56, 1000, <<1005, 1005, 1005, 1005, 1005, 1005>>)
CalmBear == Frame(56, 1000, <<995, 995, 995, 995, 995, 995>>)
Choppy == Frame(56, 1000, <<995, 1005, 995, 1005, 995, 1005>>)
MarketScenarios ==
    { <<CalmBull, <<15>>>>, <<CalmBear, <<15>>>>, <<Choppy, <<15>>>>, <<CalmBull, <<20>>>> }

BullAtSupport ==
    Frame(56, Bar(1000, 1000, 1000),
          <<Bar(1010, 1000, 1010), Bar(1010, 1000, 1010), Bar(1000, 990, 990)>>)
StockScenarios ==
    { <<BullAtSupport, <<15>>>>, <<BullAtSupport, <<20>>>>, <<BullAtSupport, <<>>>> }

----------------------------------------------------------------------------
(* Initial states: the sliders are set and the three frames are loaded
   (lines 15-39); nothing else is bound. *)

InitLocals ==
    /\ pc = "check"
    /\ spy_close = Unset /\ spy_sma20 = Unset /\ spy_sma50 = Unset
    /\ market_regime = Unset
    /\ dist_pct = Unset /\ chop_dist = Unset /\ crosses = Unset
    /\ chop_cross = Unset /\ spy_chop = Unset
    /\ vix_value = Unset /\ vol_ok = Unset /\ market_permission = Unset
    /\ support = Unset /\ resistance = Unset /\ atr = Unset /\ close = Unset
    /\ near_support = Unset /\ near_resistance = Unset /\ mid_range = Unset
    /\ stock_sma20 = Unset /\ stock_sma50 = Unset /\ stock_bias = Unset
    /\ trade_action = Unset /\ location = Unset
    /\ ui = <<>>

\* The SPY side varies; the stock is a bullish one sitting on its support.
InitMarket ==
    /\ cfg \in MarketConfigs
    /\ spy_df \in SpyFrames
    /\ \E sc \in StockScenarios : stock_df = sc[1] /\ vix_df = sc[2]
    /\ InitLocals

\* The stock side varies; SPY and VIX run through the permission outcomes.
InitStock ==
    /\ cfg \in StockConfigs
    /\ stock_df \in StockFrames
    /\ \E sc \in MarketScenarios : spy_df = sc[1] /\ vix_df = sc[2]
    /\ InitLocals

----------------------------------------------------------------------------
(* Steps of the script *)

\* lines 41-43
LoadCheck ==
    /\ pc = "check"
    /\ IF spy_df = <<>> \/ stock_df = <<>> \/ vix_df = <<>>
       THEN /\ ui' = Append(ui, Msg("error", "", "Failed to load data."))
            /\ pc' = "stopped"
       ELSE /\ ui' = ui
            /\ pc' = "spy"
    /\ UNCHANGED <<inputs, spyLocals, chopLocals, vixLocals, stockLocals, biasLocals,
                   trade_action, location>>

\* lines 48-61
SpyRegime ==
    /\ pc = "spy"
    /\ spy_close' = Num(Last(spy_df))
    /\ spy_sma20' = RollingMean(spy_df, SMA_SHORT, Len(spy_df))
    /\ spy_sma50' = RollingMean(spy_df, SMA_LONG, Len(spy_df))
    /\ market_regime' = Regime(spy_sma20', spy_sma50')
    /\ pc' = "chop"
    /\ UNCHANGED <<inputs, chopLocals, vixLocals, stockLocals, biasLocals,
                   trade_action, location, ui>>

\* lines 63-72
SpyChopStep ==
    /\ pc = "chop"
    /\ dist_pct' = DistPct(spy_close, spy_sma50)
    /\ chop_dist' = Lt(dist_pct', ChopDistBand(cfg))
    /\ crosses' = Crosses(spy_df, cfg)
    /\ chop_cross' = ChopCross(crosses', cfg)
    /\ spy_chop' = SpyChop(chop_dist', chop_cross')
    /\ pc' = "vix"
    /\ UNCHANGED <<inputs, spyLocals, vixLocals, stockLocals, biasLocals,
                   trade_action, location, ui>>

\* lines 74-78
VixGate ==
    /\ pc = "vix"
    /\ vix_value' = Num(Last(vix_df))
    /\ vol_ok' = VolOk(Last(vix_df), cfg)
    /\ market_permission' = MarketPermission(vol_ok', spy_chop)
    /\ pc' = "stock"
    /\ UNCHANGED <<inputs, spyLocals, chopLocals, stockLocals, biasLocals,
                   trade_action, location, ui>>

\* lines 83-105
StockLocation ==
    /\ pc = "stock"
    /\ support' = RollingMin(Column(stock_df, "Low"), cfg.RANGE_LOOKBACK, Len(stock_df))
    /\ resistance' = RollingMax(Column(stock_df, "High"), cfg.RANGE_LOOKBACK, Len(stock_df))
    /\ atr' = ATR(stock_df, cfg.ATR_LOOKBACK)
    /\ close' = Num(Last(stock_df).Close)
    /\ near_support' = NearSupport(close', support', atr', cfg)
    /\ near_resistance' = NearResistance(close', resistance', atr', cfg)
    /\ mid_range' = ~(near_support' \/ near_resistance')
    /\ pc' = "bias"
    /\ UNCHANGED <<inputs, spyLocals, chopLocals, vixLocals, biasLocals,
                   trade_action, location, ui>>

\* lines 107-116
StockBias ==
    /\ pc = "bias"
    /\ stock_sma20' = RollingMean(Column(stock_df, "Close"), SMA_SHORT, Len(stock_df))
    /\ stock_sma50' = RollingMean(Column(stock_df, "Close"), SMA_LONG, Len(stock_df))
    /\ stock_bias' = Regime(stock_sma20', stock_sma50')
    /\ pc' = "decide"
    /\ UNCHANGED <<inputs, spyLocals, chopLocals, vixLocals, stockLocals,
                   trade_action, location, ui>>

\* lines 121-130
FinalDecision ==
    /\ pc = "decide"
    /\ trade_action' = TradeAction(Env)
    /\ pc' = "render"
    /\ UNCHANGED <<inputs, spyLocals, chopLocals, vixLocals, stockLocals, biasLocals,
                   location, ui>>

\* lines 136-171
Render ==
    /\ pc = "render"
    /\ location' = Location(near_support, near_resistance)
    /\ ui' = ui \o Rendered(location')
    /\ pc' = "done"
    /\ UNCHANGED <<inputs, spyLocals, chopLocals, vixLocals, stockLocals, biasLocals,
                   trade_action>>

Next ==
    \/ LoadCheck
    \/ SpyRegime
    \/ SpyChopStep
    \/ VixGate
    \/ StockLocation
    \/ StockBias
    \/ FinalDecision
    \/ Render

SpecMarket == InitMarket /\ [][Next]_vars
SpecStock == InitStock /\ [][Next]_vars

----------------------------------------------------------------------------
(* Positions of the script *)

AfterChop == pc \in {"vix", "stock", "bias", "decide", "render", "done"}
AfterStock == pc \in {"bias", "decide", "render", "done"}
Decided == pc \in {"render", "done"}

Spreads == {"PUT CREDIT SPREAD", "CALL CREDIT SPREAD"}
Labels == {"Bullish", "Bearish", "Neutral"}

----------------------------------------------------------------------------
(* Market gates *)

\* C1: whenever the VIX reading is at or above the threshold, or the chop flag
\* is set, the decision is the market-wide rejection and never one of the two
\* spreads, whatever the stock's bias and location are.
C1_GatesDominate ==
    (Decided /\ (Last(vix_df) >= cfg.VIX_THRESHOLD \/ spy_chop = TRUE))
        => (trade_action = "NO TRADE (Market Risk OFF)" /\ trade_action \notin Spreads)

\* C1 witness: VIX exactly at the threshold, no chop, and a bullish stock at
\* its support, which would otherwise be a put credit spread.
C1_Witness ==
    /\ pc = "done"
    /\ Last(vix_df) = cfg.VIX_THRESHOLD
    /\ spy_chop = FALSE
    /\ stock_bias = "Bullish" /\ near_support = TRUE
    /\ trade_action = "NO TRADE (Market Risk OFF)"

----------------------------------------------------------------------------
(* Direction resolution *)

\* C2: with market permission, the decision is the put spread exactly when the
\* bias is Bullish and the location label is Near Support, the call spread
\* exactly when the bias is Bearish and the label is Near Resistance, and a
\* rejection otherwise.
C2_DirectionAgreesWithLabel ==
    (pc = "done" /\ market_permission = TRUE) =>
        /\ trade_action = "PUT CREDIT SPREAD"
               <=> (stock_bias = "Bullish" /\ location = "Near Support")
        /\ trade_action = "CALL CREDIT SPREAD"
               <=> (stock_bias = "Bearish" /\ location = "Near Resistance")
        /\ trade_action \in Spreads \cup {"SKIP THIS STOCK (Mid-range or bias mismatch)"}

----------------------------------------------------------------------------
(* Insufficient data *)

SpyTooShort == Len(spy_df) < SMA_LONG
StockTooShort ==
    Len(stock_df) < Max2(SMA_LONG, Max2(cfg.RANGE_LOOKBACK, cfg.ATR_LOOKBACK))
HasError == \E i \in DOMAIN ui : ui[i].fn = "error"

\* C3: a series shorter than the largest window it needs never yields a regime
\* label, a bias, a location label or a decision; the run ends in the distinct
\* failure instead.
C3_NoVerdictOnShortData ==
    /\ SpyTooShort => market_regime = Unset
    /\ (SpyTooShort \/ StockTooShort) =>
           /\ stock_bias = Unset /\ location = Unset /\ trade_action = Unset
           /\ pc \in {"done", "stopped"} => HasError

----------------------------------------------------------------------------
(* Range location *)

\* close <= support + buffer and close >= resistance - buffer over the
\* integers, buffer = ATR_BUFFER / 100 * atr; false when a value is undefined.
SupportCondition ==
    /\ support.def /\ atr.def
    /\ (close.num - support.num) * 100 * atr.den <= cfg.ATR_BUFFER * atr.num
ResistanceCondition ==
    /\ resistance.def /\ atr.def
    /\ (resistance.num - close.num) * 100 * atr.den <= cfg.ATR_BUFFER * atr.num

\* C4: the location is exactly one of the three labels: Near Support iff the
\* support condition holds (also when the resistance condition holds too),
\* Near Resistance iff only the resistance condition holds, Mid-Range iff
\* neither holds.
C4_LocationTotalExclusive ==
    pc = "done" =>
        /\ location \in {"Near Support", "Near Resistance", "Mid-Range"}
        /\ location = "Near Support" <=> SupportCondition
        /\ location = "Near Resistance" <=> (~SupportCondition /\ ResistanceCondition)
        /\ location = "Mid-Range" <=> (~SupportCondition /\ ~ResistanceCondition)

\* C4 witness: both conditions hold at once and the label is Near Support.
C4_Witness ==
    /\ pc = "done"
    /\ SupportCondition /\ ResistanceCondition
    /\ location = "Near Support"

----------------------------------------------------------------------------
(* Chop detector *)

LongSum(i) == SumRange(spy_df, i - SMA_LONG + 1, i)
StrictlyAbove(i) == spy_df[i] * SMA_LONG > LongSum(i)
StrictlyBelow(i) == spy_df[i] * SMA_LONG < LongSum(i)

\* The trailing CHOP_LOOKBACK + 1 bars all have a long moving average and
\* each lies on the other side of it than the bar before.
Alternating ==
    LET n == Len(spy_df) IN
    /\ n >= SMA_LONG + cfg.CHOP_LOOKBACK
    /\ \A i \in (n - cfg.CHOP_LOOKBACK + 1)..n :
           \/ StrictlyAbove(i) /\ StrictlyBelow(i - 1)
           \/ StrictlyBelow(i) /\ StrictlyAbove(i - 1)

\* C5: on an alternating series the cross count is CHOP_LOOKBACK, and the
\* crossover signal fires iff CHOP_LOOKBACK >= CHOP_CROSSES.
C5_AlternatingCrossCount ==
    (AfterChop /\ Alternating) =>
        /\ crosses = cfg.CHOP_LOOKBACK
        /\ chop_cross <=> (cfg.CHOP_LOOKBACK >= cfg.CHOP_CROSSES)

\* C5 witness: alternating, counted, and one short of the threshold.
C5_Witness ==
    /\ pc = "done"
    /\ Alternating
    /\ crosses = cfg.CHOP_LOOKBACK
    /\ cfg.CHOP_CROSSES = cfg.CHOP_LOOKBACK + 1
    /\ chop_cross = FALSE

\* |lastClose - lastLongMA| / lastLongMA < CHOP_DIST / 1000, over the integers
WithinBand ==
    LET n == Len(spy_df)
        s == LongSum(n)
    IN /\ n >= SMA_LONG
       /\ AbsI(spy_df[n] * SMA_LONG - s) * 1000 < cfg.CHOP_DIST * s

\* C6: a last close within the distance band of the long moving average sets
\* the chop flag, whatever the cross count and the cross threshold are.
C6_DistanceFlagsChop ==
    (AfterChop /\ WithinBand) => spy_chop = TRUE

\* C6 witness: the close equals the long moving average, the crossover signal
\* is silent, and chop is flagged.
C6_Witness ==
    /\ pc = "done"
    /\ WithinBand
    /\ spy_df[Len(spy_df)] * SMA_LONG = LongSum(Len(spy_df))
    /\ chop_cross = FALSE
    /\ spy_chop = TRUE

\* Fewer than 2 rows of the trailing CHOP_LOOKBACK + 1 have a long moving
\* average.
ThinCrossWindow ==
    LET n == Len(spy_df) IN
    n >= 1 /\ Cardinality({ i \in Max2(1, n - cfg.CHOP_LOOKBACK)..n : i >= SMA_LONG }) < 2

----------------------------------------------------------------------------
(* Regime classification *)

Classified(short, long, label) ==
    /\ label \in Labels
    /\ label = "Bullish" <=> (short.def /\ long.def /\ short.num * long.den > long.num * short.den)
    /\ label = "Bearish" <=> (short.def /\ long.def /\ short.num * long.den < long.num * short.den)
    /\ label = "Neutral" <=> (short.def /\ long.def /\ short.num * long.den = long.num * short.den)

\* C7: the SPY regime and the stock bias are each exactly one of Bullish
\* (short > long), Bearish (short < long) and Neutral, and Neutral only when
\* both moving averages are defined and equal.
C7_RegimeTotalExclusive ==
    pc = "done" =>
        /\ Classified(spy_sma20, spy_sma50, market_regime)
        /\ Classified(stock_sma20, stock_sma50, stock_bias)

----------------------------------------------------------------------------
(* Average true range *)

TrueRangeWithPredecessor(t) ==
    LET hl == stock_df[t].High - stock_df[t].Low
        hc == AbsI(stock_df[t].High - stock_df[t - 1].Close)
        lc == AbsI(stock_df[t].Low - stock_df[t - 1].Close)
    IN CHOOSE m \in {hl, hc, lc} : m >= hl /\ m >= hc /\ m >= lc

----------------------------------------------------------------------------
(* Independence from the SPY regime *)

\* C10: the decision is the same whatever the SPY regime label is, all other
\* inputs of the decision being equal.
C10_RegimeIrrelevant ==
    Decided => \A r \in Labels : TradeAction([Env EXCEPT !.market_regime = r]) = trade_action

\* C10 witness: a put credit spread is permitted under a Bearish SPY regime.
C10_Witness ==
    /\ pc = "done"
    /\ market_regime = "Bearish"
    /\ stock_bias = "Bullish"
    /\ trade_action = "PUT CREDIT SPREAD"

============================================================================
